---------------------------- MODULE Spec2Model ----------------------------
(***************************************************************************)
(* soxidizer: a SOCKS5 front-end bridging CONNECT requests to Unix sockets *)
(* named "{host}_{port}" in a rendezvous directory.                        *)
(*                                                                         *)
(* Two specifications share this module:                                   *)
(*   Spec         one session (serve_socks) driven by a client byte stream *)
(*                that is delivered in arbitrary chunks;                   *)
(*   ServiceSpec  the accept loops, the acceptance policy, the shutdown    *)
(*                token and the task tracker, with sessions abstracted.    *)
(* Octets are integers 0..255, strings are sequences of octets.            *)
(***************************************************************************)
EXTENDS Integers, Sequences, FiniteSets, TLC

VARIABLES
    \* ---- configuration (ProxyService) ----
    directory,      \* ProxyService.directory, a path as a sequence of octets
    allowed_uids,   \* ProxyService.allowed_uids: NoAllowList or a set of uids
    umask,          \* the file mode creation mask the process runs with
    \* ---- one session (serve_socks) ----
    stream,         \* every octet the client sends on this connection (fixed)
    eof,            \* whether the client closes its write half after them
    pending,        \* the octets of stream the session has not read yet
    pc,             \* position of serve_socks
    result,         \* how serve_socks ended: "none", "ok", "err", "panic"
    buffer,         \* the octets received into the parser's buffer so far
    methods,        \* Vec<AuthenticationMethod> returned by read_client_hello
    request,        \* SocksRequest returned by read_socks_request
    reqStart,       \* offset in stream where read_socks_request starts
    reqEnd,         \* offset in stream just past the parsed request
    out,            \* every octet written to the client, in order
    sent,           \* log of client writes: <<kind, code, complete>> records
    dialed,         \* the paths given to UnixStream::connect, in order
    remote,         \* the backend stream: "none", "open"
    backendPending, \* octets the backend has still to send
    backendEof,     \* whether the backend closes after them
    toBackend,      \* every octet written to the backend, in order
    fromBackend,    \* how many octets of out came from the backend
    c2b,            \* client-to-backend: "copy", "shutdown", "done", "error"
    b2c,            \* backend-to-client: "copy", "shutdown", "done", "error"
    shutWr,         \* the sides whose write half the relay has shut down
    \* ---- the service (accept loops) ----
    token,          \* CancellationToken: TRUE once cancelled
    trackerClosed,  \* TaskTracker closed
    loops,          \* listener id -> state of its accept loop
    conns,          \* accepted connections, in order of acceptance
    unlinks,        \* listener id -> times its socket path was removed
    mainPc          \* position of main

cfgVars  == <<directory, allowed_uids, umask>>
sessVars == <<stream, eof, pending, pc, result, buffer, methods, request,
              reqStart, reqEnd, out, sent, dialed, remote, backendPending, backendEof,
              toBackend, fromBackend, c2b, b2c, shutWr>>
svcVars  == <<token, trackerClosed, loops, conns, unlinks, mainPc>>
vars     == <<cfgVars, sessVars, svcVars>>

-----------------------------------------------------------------------------
(* Bounds of the model *)

MaxMethods    == 2   \* methods listed in a greeting
MaxDomainLen  == 2   \* octets of a domain name
MaxPayload    == 2   \* client octets following the request
MaxBackend    == 1   \* octets the backend sends
MaxConns      == 2   \* connections accepted by the service

-----------------------------------------------------------------------------
(* Program constants *)

SOCKS_VERSION5                 == 5
COMMAND_CONNECT                == 1
COMMAND_BIND                   == 2
COMMAND_UDP_ASSOCIATE          == 3
REP_SUCCEEDED                  == 0
REP_CONNECTION_NOT_ALLOWED     == 2
REP_HOST_NOT_REACHABLE         == 4
REP_COMMAND_NOT_SUPPORTED      == 7
REP_ADDRESS_TYPE_NOT_SUPPORTED == 8
NO_AUTHENTICATION              == 0
NO_ACCEPTABLE_AUTHENTICATION   == 255
ATYP_V4                        == 1
ATYP_DOMAINNAME                == 3
ATYP_V6                        == 4
HelloBufferLen                 == 256
RequestBufferLen               == 512

-----------------------------------------------------------------------------
(* Sequences of octets *)

Take(s, n) == SubSeq(s, 1, n)
Drop(s, n) == SubSeq(s, n + 1, Len(s))
Min(a, b)  == IF a < b THEN a ELSE b
IsPrefix(p, s) == Len(p) <= Len(s) /\ Take(s, Len(p)) = p
Contains(s, b) == \E i \in 1..Len(s) : s[i] = b
SeqsUpTo(S, n) == UNION {[1..k -> S] : k \in 0..n}

\* buffer[i] (0-based) of a zero-initialised array holding the octets of b
At(b, i) == IF i < Len(b) THEN b[i + 1] ELSE 0
\* &buffer[from..to] (0-based, to exclusive)
Slice(b, from, to) == [k \in 1..(to - from) |-> At(b, from + k - 1)]


-----------------------------------------------------------------------------
(* Wire codec: socks.rs *)

\* The outcome of one pass of a parser's loop body after a read.
Continue      == [kind |-> "continue"]
ParseErr      == [kind |-> "err"]
ParsePanic    == [kind |-> "panic"]

\* read_client_hello, the loop body after total_read += read_count, with b
\* the octets received so far (total_read = Len(b)).  The slice
\* &buffer[2..method_count + 2] of the 256-octet array panics when it ends
\* past the array.
HelloParse(b) ==
    LET total_read == Len(b) IN
    IF total_read < 2 THEN Continue
    ELSE IF At(b, 0) # SOCKS_VERSION5 THEN ParseErr
    ELSE LET method_count == At(b, 1) IN
         IF method_count + 2 < total_read THEN Continue
         ELSE IF method_count + 2 > HelloBufferLen THEN ParsePanic
         ELSE [kind |-> "ok", methods |-> Slice(b, 2, method_count + 2)]

\* str::from_utf8: well-formed UTF-8 (no overlong forms, no surrogates,
\* nothing above U+10FFFF).
IsCont(b) == b >= 128 /\ b <= 191
RECURSIVE ValidUtf8(_)
ValidUtf8(s) ==
    IF s = <<>> THEN TRUE
    ELSE LET b == s[1]
             n == Len(s) IN
         IF b < 128 THEN ValidUtf8(Tail(s))
         ELSE IF b >= 194 /\ b <= 223
              THEN n >= 2 /\ IsCont(s[2]) /\ ValidUtf8(Drop(s, 2))
         ELSE IF b >= 224 /\ b <= 239
              THEN /\ n >= 3
                   /\ IsCont(s[2])
                   /\ IsCont(s[3])
                   /\ (b = 224 => s[2] >= 160)
                   /\ (b = 237 => s[2] <= 159)
                   /\ ValidUtf8(Drop(s, 3))
         ELSE IF b >= 240 /\ b <= 244
              THEN /\ n >= 4
                   /\ IsCont(s[2])
                   /\ IsCont(s[3])
                   /\ IsCont(s[4])
                   /\ (b = 240 => s[2] >= 144)
                   /\ (b = 244 => s[2] <= 143)
                   /\ ValidUtf8(Drop(s, 4))
         ELSE FALSE

\* SocksRequestAddress
DomainName(d) == [kind |-> "domain", value |-> d]
IpAddress(a)  == [kind |-> "ip", value |-> a]

\* u16::from_be_bytes
U16FromBe(hi, lo) == hi * 256 + lo

\* read_socks_request, the loop body after total_read += read_count.
\* "end" is port_offset + 2, the length of the request in the buffer.
RequestOk(b, command, address, port_offset) ==
    [kind    |-> "ok",
     request |-> [command |-> command,
                  address |-> address,
                  port    |-> U16FromBe(At(b, port_offset), At(b, port_offset + 1))],
     end     |-> port_offset + 2]

RequestParse(b) ==
    LET total_read == Len(b)
        version    == At(b, 0)
        command    == At(b, 1)
        atype      == At(b, 3) IN
    IF total_read < 7 THEN Continue
    ELSE IF version # SOCKS_VERSION5 THEN ParseErr
    ELSE IF atype = ATYP_DOMAINNAME
         THEN LET domain_length == At(b, 4) IN
              IF total_read < domain_length + 7 THEN Continue
              ELSE LET raw_address == Slice(b, 5, 5 + domain_length) IN
                   IF ~ValidUtf8(raw_address) THEN ParseErr
                   ELSE RequestOk(b, command, DomainName(raw_address),
                                  5 + domain_length)
    ELSE IF atype = ATYP_V4
         THEN IF total_read < 10 THEN Continue
              ELSE RequestOk(b, command, IpAddress(Slice(b, 4, 8)), 8)
    ELSE IF atype = ATYP_V6
         THEN IF total_read < 22 THEN Continue
              ELSE RequestOk(b, command, IpAddress(Slice(b, 4, 20)), 20)
    ELSE ParseErr

-----------------------------------------------------------------------------
(* Session policy and resolver: main.rs *)

\* send_reply: the ten octets it hands to write_all
MutReplyBytesNoPort(reply) == <<SOCKS_VERSION5, reply, 0, ATYP_V4, 0, 0, 0, 0>>
ReplyBytes(reply) == <<SOCKS_VERSION5, reply, 0, ATYP_V4, 0, 0, 0, 0, 0, 0>>

\* serve_socks: the method selection written after the greeting
SelectionBytes(ms) ==
    IF ~Contains(ms, NO_AUTHENTICATION)
    THEN <<SOCKS_VERSION5, NO_ACCEPTABLE_AUTHENTICATION>>
    ELSE <<SOCKS_VERSION5, NO_AUTHENTICATION>>

\* is_acceptable_hostname: '/' = 47, '\' = 92, ':' = 58, NUL = 0.  In valid
\* UTF-8 these octets occur only as those characters.
MutHostnameNoColon(address) ==
    ~(Contains(address, 47) \/ Contains(address, 92) \/ Contains(address, 0))
is_acceptable_hostname(address) ==
    ~(\/ Contains(address, 47)
      \/ Contains(address, 92)
      \/ Contains(address, 58)
      \/ Contains(address, 0))

\* serve_socks, from the parsed request to the next await: the code of the
\* rejecting reply, or REP_SUCCEEDED when the request goes on to the dial.
MutVerdictCommandUnchecked(req) ==
    IF req.address.kind # "domain" THEN REP_ADDRESS_TYPE_NOT_SUPPORTED
    ELSE IF ~is_acceptable_hostname(req.address.value)
         THEN REP_CONNECTION_NOT_ALLOWED
    ELSE REP_SUCCEEDED
MutVerdictIpAccepted(req) ==
    IF req.command # COMMAND_CONNECT THEN REP_COMMAND_NOT_SUPPORTED
    ELSE IF req.address.kind = "domain" /\ ~is_acceptable_hostname(req.address.value)
         THEN REP_CONNECTION_NOT_ALLOWED
    ELSE REP_SUCCEEDED
MutVerdictHostnameUnchecked(req) ==
    IF req.command # COMMAND_CONNECT THEN REP_COMMAND_NOT_SUPPORTED
    ELSE IF req.address.kind # "domain" THEN REP_ADDRESS_TYPE_NOT_SUPPORTED
    ELSE REP_SUCCEEDED
Verdict(req) ==
    IF req.command # COMMAND_CONNECT THEN REP_COMMAND_NOT_SUPPORTED
    ELSE IF req.address.kind # "domain" THEN REP_ADDRESS_TYPE_NOT_SUPPORTED
    ELSE IF ~is_acceptable_hostname(req.address.value)
         THEN REP_CONNECTION_NOT_ALLOWED
    ELSE REP_SUCCEEDED

\* Display for u16: decimal digits, no leading zeros ('0' = 48)
RECURSIVE FormatDecimal(_)
FormatDecimal(n) ==
    IF n < 10 THEN <<48 + n>>
    ELSE FormatDecimal(n \div 10) \o <<48 + (n % 10)>>

\* format!("{}_{}", requested_domain, request.port)   ('_' = 95)
MutFilenameNoSeparator(domain, port) == domain \o FormatDecimal(port)
SocketFilename(domain, port) == domain \o <<95>> \o FormatDecimal(port)

\* Path::join: an absolute argument replaces the base; otherwise a separator
\* is added unless the base is empty or already ends with one.
PathJoin(base, name) ==
    IF name # <<>> /\ name[1] = 47 THEN name
    ELSE IF base = <<>> \/ base[Len(base)] = 47 THEN base \o name
    ELSE base \o <<47>> \o name

\* serve_socks: the path handed to UnixStream::connect
SocketPath(dir, req) ==
    PathJoin(dir, SocketFilename(req.address.value, req.port))

\* serve_socks after the dial: the reply for its outcome
MutDialReplyAlwaysSucceeded(connected) == REP_SUCCEEDED
DialReply(connected) ==
    IF connected THEN REP_SUCCEEDED ELSE REP_HOST_NOT_REACHABLE

\* serve_socks after send_reply(REP_SUCCEEDED): an error returns, otherwise
\* the relay starts
MutRelayDespiteFailedReply(written) == "relay"
AfterSucceededReply(written) == IF written THEN "relay" ELSE "done"

\* GenericStream::get_uid: the peer credential of a Unix stream (cred is what
\* peer_cred gives, NoUid when it fails); always an error for a TCP stream
NoUid == -1
MutGetUidTcpCredential(kind, cred) == cred
get_uid(kind, cred) == IF kind = "tcp" THEN NoUid ELSE cred

\* ProxyService.allowed_uids: None, or Some(set)
NoAllowList     == [some |-> FALSE, uids |-> {}]
AllowList(uids) == [some |-> TRUE, uids |-> uids]

\* ProxyService::check_allowed_socket, given the result of socket.get_uid()
MutCheckErrAllowed(allowed, uid) ==
    IF ~allowed.some THEN TRUE
    ELSE IF uid = NoUid THEN TRUE
    ELSE uid \in allowed.uids
check_allowed_socket(allowed, uid) ==
    IF ~allowed.some THEN TRUE
    ELSE IF uid = NoUid THEN FALSE
    ELSE uid \in allowed.uids

-----------------------------------------------------------------------------
(* Inputs of a session *)

Versions      == {SOCKS_VERSION5, 4}
MethodOctets  == {NO_AUTHENTICATION, 1, 2}
Commands      == {COMMAND_CONNECT, COMMAND_BIND, COMMAND_UDP_ASSOCIATE, 9}
\* 'a', '/', '\', ':', NUL, and the two octets of U+00E9
DomainOctets  == {97, 47, 92, 58, 0, 195, 169}
Ports         == {<<0, 80>>, <<1, 187>>}
Directories   == {<<47, 100>>, <<100, 47>>}       \* "/d", "d/"
NoRequest     == [command |-> 0, address |-> IpAddress(<<>>), port |-> 0]

\* [ver, nmethods, methods...]; the declared count may exceed what is sent
Greetings ==
    UNION {{<<v, n>> \o m : m \in SeqsUpTo(MethodOctets, Min(n, MaxMethods))} :
           v \in Versions, n \in (0..MaxMethods) \cup {254, 255}}
WholeGreetings == {g \in Greetings : Len(g) = g[2] + 2}

DomainRequests ==
    {<<SOCKS_VERSION5, c, 0, ATYP_DOMAINNAME, Len(d)>> \o d \o p :
        c \in {COMMAND_CONNECT, COMMAND_BIND},
        d \in SeqsUpTo(DomainOctets, MaxDomainLen), p \in Ports}
IpRequests ==
    {<<SOCKS_VERSION5, c, 0, ATYP_V4, 127, 0, 0, 1>> \o p :
        c \in Commands, p \in Ports}
    \cup
    {<<SOCKS_VERSION5, c, 0, ATYP_V6>> \o [i \in 1..16 |-> i] \o <<0, 80>> :
        c \in Commands}
OtherRequests ==
    {<<v, c, 0, a, 1, 97, 0, 80>> :
        v \in Versions, c \in {COMMAND_CONNECT, COMMAND_BIND}, a \in {0, 2, 5}}
    \cup {<<SOCKS_VERSION5, c, 0, ATYP_DOMAINNAME, 1, 97, 0, 80>> :
        c \in Commands}
    \cup {<<>>, <<SOCKS_VERSION5, COMMAND_CONNECT, 0>>,
          <<SOCKS_VERSION5, COMMAND_CONNECT, 0, ATYP_DOMAINNAME, 3, 97>>}
Requests == DomainRequests \cup IpRequests \cup OtherRequests
\* "example":80
ExampleRequest ==
    <<SOCKS_VERSION5, COMMAND_CONNECT, 0, ATYP_DOMAINNAME, 7,
      101, 120, 97, 109, 112, 108, 101, 0, 80>>

Payloads    == {[i \in 1..k |-> 200 + i] : k \in 0..MaxPayload}
EdgePayloads == {<<>>, [i \in 1..MaxPayload |-> 200 + i]}
BackendData == {[i \in 1..k |-> 100 + i] : k \in 0..MaxBackend}

\* Every greeting before a few requests, and every request after a few
\* greetings.
Streams ==
    {g \o r \o p : g \in Greetings,
                   r \in {<<>>, ExampleRequest,
                          <<SOCKS_VERSION5, COMMAND_BIND, 0, ATYP_V4,
                            127, 0, 0, 1, 0, 80>>},
                   p \in Payloads}
    \cup
    {g \o r \o p : g \in {<<SOCKS_VERSION5, 1, NO_AUTHENTICATION>>,
                          <<SOCKS_VERSION5, 2, 2, NO_AUTHENTICATION>>},
                   r \in Requests, p \in EdgePayloads}

-----------------------------------------------------------------------------
(* One session: serve_socks *)

SvcIdle ==
    /\ token = FALSE
    /\ trackerClosed = FALSE
    /\ loops = <<>>
    /\ conns = <<>>
    /\ unlinks = <<>>
    /\ mainPc = "serving"

Init ==
    /\ directory \in Directories
    /\ allowed_uids = NoAllowList
    /\ umask = 18
    /\ stream \in Streams
    /\ eof \in BOOLEAN
    /\ pending = stream
    /\ pc = "hello"
    /\ result = "none"
    /\ buffer = <<>>
    /\ methods = <<>>
    /\ request = NoRequest
    /\ reqStart = 0
    /\ reqEnd = 0
    /\ out = <<>>
    /\ sent = <<>>
    /\ dialed = <<>>
    /\ remote = "none"
    /\ backendPending = <<>>
    /\ backendEof = FALSE
    /\ toBackend = <<>>
    /\ fromBackend = 0
    /\ c2b = "copy"
    /\ b2c = "copy"
    /\ shutWr = {}
    /\ SvcIdle

ioVars    == <<out, sent>>
relayVars == <<remote, backendPending, backendEof, toBackend, fromBackend,
               c2b, b2c, shutWr>>
inVars    == <<stream, eof, reqStart>>

\* serve_socks returns (or its task panics); the client stream is dropped
Return(how) == pc' = "done" /\ result' = how

\* write_all(bytes) on the client: all but the last `short` octets get
\* written; short = 0 is success, anything more an error after a partial
\* write
ClientWrite(kind, code, bytes, short) ==
    /\ out' = out \o Take(bytes, Len(bytes) - short)
    /\ sent' = Append(sent, [kind |-> kind, code |-> code,
                             complete |-> (short = 0)])

\* read_client_hello: one read of the loop and the pass that follows it
HelloRead ==
    /\ pc = "hello"
    /\ \E n \in 1..Min(Len(pending), HelloBufferLen - Len(buffer)) :
         LET b == buffer \o Take(pending, n)
             r == HelloParse(b) IN
         /\ pending' = Drop(pending, n)
         /\ CASE r.kind = "ok" ->
                   /\ methods' = r.methods
                   /\ reqStart' = Len(stream) - Len(pending) + n
                   /\ buffer' = <<>>
                   /\ pc' = "select"
                   /\ result' = result
              [] r.kind = "continue" /\ Len(b) < HelloBufferLen ->
                   /\ buffer' = b
                   /\ UNCHANGED <<methods, reqStart, pc, result>>
              [] r.kind = "continue" /\ Len(b) >= HelloBufferLen ->
                   /\ buffer' = <<>>
                   /\ Return("err")
                   /\ UNCHANGED <<methods, reqStart>>
              [] r.kind = "err" ->
                   /\ buffer' = <<>>
                   /\ Return("err")
                   /\ UNCHANGED <<methods, reqStart>>
              [] r.kind = "panic" ->
                   /\ buffer' = <<>>
                   /\ Return("panic")
                   /\ UNCHANGED <<methods, reqStart>>
    /\ UNCHANGED <<cfgVars, stream, eof, request, reqEnd, ioVars, dialed,
                   relayVars, svcVars>>

\* read_client_hello: the read returns 0 (end of stream) or an error
HelloEof ==
    /\ pc = "hello"
    /\ pending = <<>>
    /\ eof
    /\ buffer' = <<>>
    /\ Return("err")
    /\ UNCHANGED <<cfgVars, inVars, pending, methods, request, reqEnd, ioVars,
                   dialed, relayVars, svcVars>>

\* serve_socks: the method selection
WriteSelection ==
    /\ pc = "select"
    /\ LET bytes == SelectionBytes(methods) IN
       \E short \in 0..Len(bytes) :
         /\ ClientWrite("selection", bytes[2], bytes, short)
         /\ IF short > 0 THEN Return("err")
            ELSE IF bytes[2] = NO_ACCEPTABLE_AUTHENTICATION THEN Return("ok")
            ELSE pc' = "request" /\ result' = result
    /\ UNCHANGED <<cfgVars, inVars, pending, buffer, methods, request, reqEnd,
                   dialed, relayVars, svcVars>>

\* read_socks_request: one read of the loop and the pass that follows it
RequestRead ==
    /\ pc = "request"
    /\ \E n \in 1..Min(Len(pending), RequestBufferLen - Len(buffer)) :
         LET b     == buffer \o Take(pending, n)
             r     == RequestParse(b)
             start == Len(stream) - Len(pending) - Len(buffer) IN
         /\ pending' = Drop(pending, n)
         /\ CASE r.kind = "ok" ->
                   /\ request' = r.request
                   /\ reqEnd' = start + r.end
                   /\ buffer' = <<>>
                   /\ pc' = "dispatch"
                   /\ result' = result
              [] r.kind = "continue" /\ Len(b) < RequestBufferLen ->
                   /\ buffer' = b
                   /\ UNCHANGED <<request, reqEnd, pc, result>>
              [] r.kind = "continue" /\ Len(b) >= RequestBufferLen ->
                   /\ buffer' = <<>>
                   /\ Return("err")
                   /\ UNCHANGED <<request, reqEnd>>
              [] r.kind = "err" ->
                   /\ buffer' = <<>>
                   /\ Return("err")
                   /\ UNCHANGED <<request, reqEnd>>
    /\ UNCHANGED <<cfgVars, inVars, methods, ioVars, dialed, relayVars, svcVars>>

\* read_socks_request: the read returns 0 (end of stream) or an error
RequestEof ==
    /\ pc = "request"
    /\ pending = <<>>
    /\ eof
    /\ buffer' = <<>>
    /\ Return("err")
    /\ UNCHANGED <<cfgVars, inVars, pending, methods, request, reqEnd, ioVars,
                   dialed, relayVars, svcVars>>

\* send_reply(code) followed by the return of serve_socks
FinalReply(code) ==
    \E short \in 0..Len(ReplyBytes(code)) :
        /\ ClientWrite("reply", code, ReplyBytes(code), short)
        /\ Return(IF short > 0 THEN "err" ELSE "ok")

\* serve_socks: command, address type or hostname refused
Reject ==
    /\ pc = "dispatch"
    /\ Verdict(request) # REP_SUCCEEDED
    /\ FinalReply(Verdict(request))
    /\ UNCHANGED <<cfgVars, inVars, pending, buffer, methods, request, reqEnd,
                   dialed, relayVars, svcVars>>

\* serve_socks: UnixStream::connect(socket_path)
Connect ==
    /\ pc = "dispatch"
    /\ Verdict(request) = REP_SUCCEEDED
    /\ dialed' = Append(dialed, SocketPath(directory, request))
    /\ \/ /\ remote' = "open"
          /\ backendPending' \in BackendData
          /\ backendEof' \in BOOLEAN
       \/ /\ remote' = "failed"
          /\ UNCHANGED <<backendPending, backendEof>>
    /\ pc' = "connected"
    /\ UNCHANGED <<cfgVars, inVars, pending, buffer, methods, request, reqEnd,
                   ioVars, result, toBackend, fromBackend, c2b, b2c, shutWr,
                   svcVars>>

\* serve_socks: the dial failed
ReplyUnreachable ==
    /\ pc = "connected"
    /\ DialReply(remote = "open") # REP_SUCCEEDED
    /\ FinalReply(DialReply(remote = "open"))
    /\ UNCHANGED <<cfgVars, inVars, pending, buffer, methods, request, reqEnd,
                   dialed, relayVars, svcVars>>

\* serve_socks: the dial succeeded
ReplySucceeded ==
    /\ pc = "connected"
    /\ DialReply(remote = "open") = REP_SUCCEEDED
    /\ \E short \in 0..Len(ReplyBytes(REP_SUCCEEDED)) :
         LET written == (short = 0) IN
         /\ ClientWrite("reply", REP_SUCCEEDED, ReplyBytes(REP_SUCCEEDED), short)
         /\ pc' = AfterSucceededReply(written)
         /\ result' = IF written THEN result ELSE "err"
    /\ UNCHANGED <<cfgVars, inVars, pending, buffer, methods, request, reqEnd,
                   dialed, relayVars, svcVars>>

\* copy_bidirectional, client to backend: octets read from the client are
\* written to the backend
RelayClientToBackend ==
    /\ pc = "relay"
    /\ c2b = "copy"
    /\ \E n \in 1..Len(pending) :
         /\ toBackend' = toBackend \o Take(pending, n)
         /\ pending' = Drop(pending, n)
    /\ UNCHANGED <<cfgVars, inVars, pc, result, buffer, methods, request,
                   reqEnd, ioVars, dialed, remote, backendPending, backendEof,
                   fromBackend, c2b, b2c, shutWr, svcVars>>

\* copy_bidirectional, client to backend: the client's end of stream is read
RelayClientEof ==
    /\ pc = "relay"
    /\ c2b = "copy"
    /\ pending = <<>>
    /\ eof
    /\ c2b' = "shutdown"
    /\ UNCHANGED <<cfgVars, inVars, pending, pc, result, buffer, methods,
                   request, reqEnd, ioVars, dialed, remote, backendPending,
                   backendEof, toBackend, fromBackend, b2c, shutWr, svcVars>>

\* copy_bidirectional, client to backend: the backend's write half is shut
RelayShutdownBackend ==
    /\ pc = "relay"
    /\ c2b = "shutdown"
    /\ c2b' = "done"
    /\ shutWr' = shutWr \cup {"backend"}
    /\ UNCHANGED <<cfgVars, inVars, pending, pc, result, buffer, methods,
                   request, reqEnd, ioVars, dialed, remote, backendPending,
                   backendEof, toBackend, fromBackend, b2c, svcVars>>

\* copy_bidirectional, backend to client
RelayBackendToClient ==
    /\ pc = "relay"
    /\ b2c = "copy"
    /\ \E n \in 1..Len(backendPending) :
         /\ out' = out \o Take(backendPending, n)
         /\ fromBackend' = fromBackend + n
         /\ backendPending' = Drop(backendPending, n)
    /\ UNCHANGED <<cfgVars, inVars, pending, pc, result, buffer, methods,
                   request, reqEnd, sent, dialed, remote, backendEof,
                   toBackend, c2b, b2c, shutWr, svcVars>>

\* copy_bidirectional, backend to client: the backend's end of stream is read
RelayBackendEof ==
    /\ pc = "relay"
    /\ b2c = "copy"
    /\ backendPending = <<>>
    /\ backendEof
    /\ b2c' = "shutdown"
    /\ UNCHANGED <<cfgVars, inVars, pending, pc, result, buffer, methods,
                   request, reqEnd, ioVars, dialed, remote, backendPending,
                   backendEof, toBackend, fromBackend, c2b, shutWr, svcVars>>

\* copy_bidirectional, backend to client: the client's write half is shut
RelayShutdownClient ==
    /\ pc = "relay"
    /\ b2c = "shutdown"
    /\ b2c' = "done"
    /\ shutWr' = shutWr \cup {"client"}
    /\ UNCHANGED <<cfgVars, inVars, pending, pc, result, buffer, methods,
                   request, reqEnd, ioVars, dialed, remote, backendPending,
                   backendEof, toBackend, fromBackend, c2b, svcVars>>

\* copy_bidirectional is ready once both directions are done
MutRelayFinishedEither(a2b, b2a) == a2b = "done" \/ b2a = "done"
RelayFinished(a2b, b2a) == a2b = "done" /\ b2a = "done"

\* copy_bidirectional returns once both directions are done; serve_socks
\* returns Ok
RelayDone ==
    /\ pc = "relay"
    /\ RelayFinished(c2b, b2c)
    /\ Return("ok")
    /\ UNCHANGED <<cfgVars, inVars, pending, buffer, methods, request, reqEnd,
                   ioVars, dialed, relayVars, svcVars>>

\* copy_bidirectional returns the first read, write or shutdown error of a
\* direction that is not done; serve_socks discards it and returns Ok
RelayError ==
    /\ pc = "relay"
    /\ \/ c2b # "done" /\ c2b' = "error" /\ b2c' = b2c
       \/ b2c # "done" /\ b2c' = "error" /\ c2b' = c2b
    /\ Return("ok")
    /\ UNCHANGED <<cfgVars, inVars, pending, buffer, methods, request, reqEnd,
                   ioVars, dialed, remote, backendPending, backendEof,
                   toBackend, fromBackend, shutWr, svcVars>>

Next ==
    \/ HelloRead
    \/ HelloEof
    \/ WriteSelection
    \/ RequestRead
    \/ RequestEof
    \/ Reject
    \/ Connect
    \/ ReplyUnreachable
    \/ ReplySucceeded
    \/ RelayClientToBackend
    \/ RelayClientEof
    \/ RelayShutdownBackend
    \/ RelayBackendToClient
    \/ RelayBackendEof
    \/ RelayShutdownClient
    \/ RelayDone
    \/ RelayError

Spec == Init /\ [][Next]_vars

-----------------------------------------------------------------------------
(* The service: main and the accept loops *)

Uids       == {1000, 1001}
\* no allow-list, an empty one, and one that holds one of the two uids
AllowLists == {NoAllowList, AllowList({}), AllowList({1000})}

\* The listeners of the process: a configured Unix socket, a configured TCP
\* socket and a Unix socket inherited from the supervisor.
Listeners ==
    {[id |-> 1, kind |-> "unix", configured |-> TRUE],
     [id |-> 2, kind |-> "tcp",  configured |-> TRUE],
     [id |-> 3, kind |-> "unix", configured |-> FALSE]}
ListenerIds == {l.id : l \in Listeners}
ListenerOf(i) == CHOOSE l \in Listeners : l.id = i

\* How the process is started: under the mask 0o077 with an allow-list,
\* under the usual 0o022 without one
Startups ==
    {[allowed_uids |-> a, umask |-> IF a.some THEN 63 ELSE 18] : a \in AllowLists}

\* The credential of an accepted connection's peer: a Unix peer's uid, or
\* none when the query fails; a TCP peer runs under a uid the socket does
\* not tell
PeerCreds(kind) == IF kind = "unix" THEN Uids \cup {NoUid} ELSE {1000}

\* UnixListener::bind(path) creates the socket file with every permission bit
\* the mask of the moment leaves; start_unix_socket does not touch the mask
SocketMode(mask) == 511 - mask

SessIdle ==
    /\ stream = <<>>
    /\ eof = FALSE
    /\ pending = <<>>
    /\ pc = "idle"
    /\ result = "none"
    /\ buffer = <<>>
    /\ methods = <<>>
    /\ request = NoRequest
    /\ reqStart = 0
    /\ reqEnd = 0
    /\ out = <<>>
    /\ sent = <<>>
    /\ dialed = <<>>
    /\ remote = "none"
    /\ backendPending = <<>>
    /\ backendEof = FALSE
    /\ toBackend = <<>>
    /\ fromBackend = 0
    /\ c2b = "copy"
    /\ b2c = "copy"
    /\ shutWr = {}

\* main has established its listeners and awaits ctrl_c or the token
ServiceInit ==
    /\ directory = <<47, 100>>
    /\ \E st \in Startups : allowed_uids = st.allowed_uids /\ umask = st.umask
    /\ SessIdle
    /\ token = FALSE
    /\ trackerClosed = FALSE
    /\ loops = [i \in ListenerIds |-> "accepting"]
    /\ conns = <<>>
    /\ unlinks = [i \in ListenerIds |-> 0]
    /\ mainPc = "serving"

Alive == mainPc # "exited"

MutTrackerEmptyLoopsOnly == \A i \in ListenerIds : loops[i] = "exited"

\* The tasks the tracker holds: accept loops and sessions not yet finished
TrackerEmpty ==
    /\ \A i \in ListenerIds : loops[i] = "exited"
    /\ \A c \in 1..Len(conns) : conns[c].state # "session"

\* accept_*_socks_connections: the accept branch of the select yields a
\* connection; the acceptance policy runs and a session is spawned or the
\* socket is dropped.  `late` records that the tracker was already closed
\* when the connection was accepted.
Accept(i) ==
    /\ Alive
    /\ loops[i] = "accepting"
    /\ Len(conns) < MaxConns
    /\ \E cred \in PeerCreds(ListenerOf(i).kind) :
         LET kind    == ListenerOf(i).kind
             allowed == check_allowed_socket(allowed_uids, get_uid(kind, cred)) IN
         conns' = Append(conns,
                         [listener |-> i, kind |-> kind, cred |-> cred,
                          state    |-> IF allowed THEN "session" ELSE "dropped",
                          late     |-> trackerClosed,
                          io       |-> FALSE])
    /\ UNCHANGED <<cfgVars, sessVars, token, trackerClosed, loops, unlinks,
                   mainPc>>

MutAfterLoopNoCancel(i) ==
    /\ token' = token
    /\ trackerClosed' = TRUE
    /\ loops' = [loops EXCEPT ![i] =
                    IF ListenerOf(i).kind = "unix" /\ ListenerOf(i).configured
                    THEN "unlinking" ELSE "exited"]

MutAfterLoopNoClose(i) ==
    /\ token' = TRUE
    /\ trackerClosed' = trackerClosed
    /\ loops' = [loops EXCEPT ![i] =
                    IF ListenerOf(i).kind = "unix" /\ ListenerOf(i).configured
                    THEN "unlinking" ELSE "exited"]

MutAfterLoopNoUnlink(i) ==
    /\ token' = TRUE
    /\ trackerClosed' = TRUE
    /\ loops' = [loops EXCEPT ![i] = "exited"]

\* after the loop: cancellation_token.cancel(); tracker.close(); a configured
\* Unix listener's task then removes its socket file
AfterLoop(i) ==
    /\ token' = TRUE
    /\ trackerClosed' = TRUE
    /\ loops' = [loops EXCEPT ![i] =
                    IF ListenerOf(i).kind = "unix" /\ ListenerOf(i).configured
                    THEN "unlinking" ELSE "exited"]

\* the accept branch yields an error: break
AcceptError(i) ==
    /\ Alive
    /\ loops[i] = "accepting"
    /\ AfterLoop(i)
    /\ UNCHANGED <<cfgVars, sessVars, conns, unlinks, mainPc>>

\* the cancelled() branch of the select: break
LoopCancelled(i) ==
    /\ Alive
    /\ loops[i] = "accepting"
    /\ token
    /\ AfterLoop(i)
    /\ UNCHANGED <<cfgVars, sessVars, conns, unlinks, mainPc>>

\* start_unix_socket: remove_file(path) once the accept loop has returned
RemoveFile(i) ==
    /\ Alive
    /\ loops[i] = "unlinking"
    /\ unlinks' = [unlinks EXCEPT ![i] = @ + 1]
    /\ loops' = [loops EXCEPT ![i] = "exited"]
    /\ UNCHANGED <<cfgVars, sessVars, token, trackerClosed, conns, mainPc>>

\* handle_socks_connection: the session reads from or writes to its socket
SessionIo(c) ==
    /\ Alive
    /\ conns[c].state = "session"
    /\ ~conns[c].io
    /\ conns' = [conns EXCEPT ![c].io = TRUE]
    /\ UNCHANGED <<cfgVars, sessVars, token, trackerClosed, loops, unlinks,
                   mainPc>>

\* handle_socks_connection returns, whatever serve_socks returned;
\* serve_socks has read from the socket at least once by then
SessionEnd(c) ==
    /\ Alive
    /\ conns[c].state = "session"
    /\ conns[c].io
    /\ conns' = [conns EXCEPT ![c].state = "finished"]
    /\ UNCHANGED <<cfgVars, sessVars, token, trackerClosed, loops, unlinks,
                   mainPc>>

\* main: the select completes on ctrl_c or on the token; main cancels the
\* token and awaits tracker.wait()
MainCtrlC ==
    /\ mainPc = "serving"
    /\ token' = TRUE
    /\ mainPc' = "waiting"
    /\ UNCHANGED <<cfgVars, sessVars, trackerClosed, loops, conns, unlinks>>

MainCancelled ==
    /\ mainPc = "serving"
    /\ token
    /\ mainPc' = "waiting"
    /\ UNCHANGED <<cfgVars, sessVars, token, trackerClosed, loops, conns,
                   unlinks>>

\* main: tracker.wait() returns once the tracker is closed and empty
MainExit ==
    /\ mainPc = "waiting"
    /\ trackerClosed
    /\ TrackerEmpty
    /\ mainPc' = "exited"
    /\ UNCHANGED <<cfgVars, sessVars, token, trackerClosed, loops, conns,
                   unlinks>>

ServiceNext ==
    \/ \E i \in ListenerIds : Accept(i)
    \/ \E i \in ListenerIds : AcceptError(i)
    \/ \E i \in ListenerIds : LoopCancelled(i)
    \/ \E i \in ListenerIds : RemoveFile(i)
    \/ \E c \in 1..Len(conns) : SessionIo(c)
    \/ \E c \in 1..Len(conns) : SessionEnd(c)
    \/ MainCtrlC
    \/ MainCancelled
    \/ MainExit

ServiceSpec == ServiceInit /\ [][ServiceNext]_vars

\* The service started with an allow-list that admits some peers and not
\* others, so that connections are both served and dropped
ServiceFairInit == ServiceInit /\ allowed_uids = AllowList({1000})

\* The runtime polls every task that is ready: an accept loop whose token is
\* cancelled takes that branch of its select sooner or later, a listener's
\* task goes on to remove its file, main's select and tracker.wait() complete
\* once they can.  Nothing makes a signal arrive, an accept fail or a
\* client end its session.
ServiceFairSpec ==
    /\ ServiceFairInit
    /\ [][ServiceNext]_vars
    /\ \A i \in ListenerIds : WF_vars(LoopCancelled(i))
    /\ \A i \in ListenerIds : WF_vars(RemoveFile(i))
    /\ WF_vars(MainCancelled)
    /\ WF_vars(MainExit)

-----------------------------------------------------------------------------
(* Properties of a session, checked under Spec *)

\* The greeting the client sent, read off its octets: [ver, nmethods, methods...]
GreetingLen     == stream[2] + 2
GreetingWhole   == Len(stream) >= 2 /\ stream[1] = 5 /\ Len(stream) >= GreetingLen
GreetingMethods == SubSeq(stream, 3, GreetingLen)
Received        == Len(stream) - Len(pending)
PastDispatch    == pc \in {"connected", "relay", "done"} /\ request # NoRequest
Wrote(i, kind, code) ==
    Len(sent) >= i /\ sent[i].kind = kind /\ sent[i].code = code
WroteWhole(i, kind, code) == Wrote(i, kind, code) /\ sent[i].complete

\* C1: for a greeting [5, nmethods, methods...] whose method list contains
\* 0x00, however the client's octets are split or coalesced across reads:
\* once the whole greeting has been received the session stops waiting for
\* greeting octets, its first write is the method selection [5, 0x00], and it
\* goes on to read the request instead of returning.
C1_NoAuthSelected ==
    (GreetingWhole /\ Contains(GreetingMethods, 0))
    => /\ Received >= GreetingLen => pc # "hello"
       /\ pc \notin {"hello", "select"} =>
            /\ Wrote(1, "selection", 0)
            /\ sent[1].complete => Take(out, 2) = <<5, 0>>
            /\ (sent[1].complete /\ Len(sent) = 1 /\ pc = "done")
                   => result = "err"

\* C2: for a client that sends a greeting whose method list does not contain
\* 0x00 (the empty list included) and nothing after it, however the greeting
\* is split across reads: the session writes exactly [5, 0xFF], reads no
\* request, writes nothing else and returns.
C2_NoAcceptableMethod ==
    (GreetingWhole /\ ~Contains(GreetingMethods, 0) /\ Len(stream) = GreetingLen)
    => /\ Received >= GreetingLen => pc # "hello"
       /\ pc \notin {"hello", "select"} =>
            /\ pc = "done"
            /\ Len(sent) = 1
            /\ Wrote(1, "selection", 255)
            /\ sent[1].complete => (out = <<5, 255>> /\ result = "ok")
            /\ request = NoRequest

\* C3: in every session that relays, the ten octets [5,0,0,1,0,0,0,0,0,0]
\* are completely written to the client, right after the method selection,
\* before any octet of the backend is written to it; and if writing the
\* success reply fails, nothing is relayed in either direction.
C3_SuccessReplyFirst ==
    /\ (pc = "relay" \/ fromBackend > 0 \/ toBackend # <<>>)
       => /\ Len(sent) = 2
          /\ WroteWhole(2, "reply", 0)
          /\ Take(out, 12) = <<5, 0, 5, 0, 0, 1, 0, 0, 0, 0, 0, 0>>
          /\ Len(out) = 12 + fromBackend
    /\ (Wrote(2, "reply", 0) /\ ~sent[2].complete)
       => /\ pc = "done"
          /\ result = "err"
          /\ fromBackend = 0
          /\ toBackend = <<>>

C3_Witness ==
    /\ fromBackend > 0
    /\ pc = "relay"
    /\ out = <<5, 0, 5, 0, 0, 1, 0, 0, 0, 0, 0, 0, 101>>

\* The characters the hostname policy refuses: '/', '\', ':' and NUL
HasRefusedChar(d) == \E i \in 1..Len(d) : d[i] \in {47, 92, 58, 0}
RepliedWith(code) == \E i \in 1..Len(sent) : sent[i].kind = "reply" /\ sent[i].code = code
ParsedConnectDomain ==
    /\ PastDispatch
    /\ request.command = 1
    /\ request.address.kind = "domain"

\* C4: for every parsed CONNECT request with a domain name, the session
\* answers with code 2 if and only if the domain contains '/', '\', ':' or
\* NUL; when it does, it dials no backend and returns after that reply.
C4_HostnamePolicy ==
    ParsedConnectDomain
    => /\ RepliedWith(2) <=> HasRefusedChar(request.address.value)
       /\ RepliedWith(2)
          => /\ dialed = <<>>
             /\ pc = "done"
             /\ Len(sent) = 2
             /\ sent[2].complete
                => out = <<5, 0, 5, 2, 0, 1, 0, 0, 0, 0, 0, 0>>

C4_Witness ==
    /\ ParsedConnectDomain
    /\ request.address.value = <<97, 58>>
    /\ WroteWhole(2, "reply", 2)
    /\ pc = "done"

\* C5: for every parsed request whose command is not 1, whatever its address,
\* the session's reply is [5,7,0,1,0,0,0,0,0,0], no backend is dialled and the
\* session returns.
C5_CommandPolicy ==
    (PastDispatch /\ request.command # 1)
    => /\ pc = "done"
       /\ dialed = <<>>
       /\ remote = "none"
       /\ Len(sent) = 2
       /\ Wrote(2, "reply", 7)
       /\ sent[2].complete
          => /\ out = <<5, 0, 5, 7, 0, 1, 0, 0, 0, 0, 0, 0>>
             /\ result = "ok"

C5_Witness ==
    /\ PastDispatch
    /\ request.command = 9
    /\ request.address.kind = "ip"
    /\ Len(request.address.value) = 16
    /\ WroteWhole(2, "reply", 7)

\* C6: for every parsed CONNECT request with an IPv4 or IPv6 address, the
\* session's reply is [5,8,0,1,0,0,0,0,0,0], no backend is dialled and the
\* session returns.
C6_IpAddressRefused ==
    (PastDispatch /\ request.command = 1 /\ request.address.kind = "ip")
    => /\ pc = "done"
       /\ dialed = <<>>
       /\ remote = "none"
       /\ Len(sent) = 2
       /\ Wrote(2, "reply", 8)
       /\ sent[2].complete
          => /\ out = <<5, 0, 5, 8, 0, 1, 0, 0, 0, 0, 0, 0>>
             /\ result = "ok"

C6_Witness ==
    /\ PastDispatch
    /\ request.command = 1
    /\ request.address = IpAddress(<<127, 0, 0, 1>>)
    /\ WroteWhole(2, "reply", 8)

\* C7: for every request received after a successful negotiation whose
\* address-type octet is not 1, 3 or 4, the session has written a reply with
\* code 8 by the time it returns.
C7_UnknownAddressType ==
    (/\ pc = "done"
     /\ WroteWhole(1, "selection", 0)
     /\ Received >= reqStart + 7
     /\ stream[reqStart + 1] = 5
     /\ stream[reqStart + 4] \notin {1, 3, 4})
    => Wrote(2, "reply", 8)

\* The value of a string of decimal digits
RECURSIVE DecimalValue(_)
DecimalValue(d) ==
    IF d = <<>> THEN 0
    ELSE 10 * DecimalValue(Take(d, Len(d) - 1)) + (d[Len(d)] - 48)
IsDecimal(d) ==
    /\ d # <<>>
    /\ \A i \in 1..Len(d) : d[i] \in 48..57
    /\ Len(d) > 1 => d[1] # 48
\* The directory followed by one separator
DirectorySlash ==
    IF directory[Len(directory)] = 47 THEN directory ELSE directory \o <<47>>

\* C8: for every CONNECT request with a domain name H that passes the hostname
\* policy and port P, the session dials once, the path {directory}/{H}_{P}
\* with P in decimal without leading zeros; if the dial fails the session
\* replies [5,4,0,1,0,0,0,0,0,0], relays nothing and returns.
C8_DialPathAndUnreachable ==
    (ParsedConnectDomain /\ ~HasRefusedChar(request.address.value))
    => LET H    == request.address.value
           head == DirectorySlash \o H \o <<95>> IN
       /\ Len(dialed) = 1
       /\ IsPrefix(head, dialed[1])
       /\ IsDecimal(Drop(dialed[1], Len(head)))
       /\ DecimalValue(Drop(dialed[1], Len(head))) = request.port
       /\ (remote = "failed" /\ pc # "connected")
          => /\ pc = "done"
             /\ Len(sent) = 2
             /\ Wrote(2, "reply", 4)
             /\ sent[2].complete
                => out = <<5, 0, 5, 4, 0, 1, 0, 0, 0, 0, 0, 0>>
             /\ toBackend = <<>>
             /\ fromBackend = 0

C8_Witness ==
    /\ ParsedConnectDomain
    /\ request.address.value = <<195, 169>>
    /\ request.port = 443
    /\ directory = <<47, 100>>
    /\ dialed = <<(<<47, 100, 47, 195, 169, 95, 52, 52, 51>>)>>
    /\ remote = "failed"
    /\ WroteWhole(2, "reply", 4)

\* C10: early payload is preserved: what the backend receives in the relay is
\* the client's octets that follow the end of the request, in order, those
\* that arrived before the relay started included.
C10_EarlyPayloadPreserved ==
    WroteWhole(2, "reply", 0) => IsPrefix(toBackend, Drop(stream, reqEnd))

\* C11: in the relay, the write half of a side is shut down only upon the end
\* of stream read from the other side, and that leaves the opposite direction
\* and the relay running; a direction is done only once that shutdown has been
\* made; and the relay returns only when both directions are done or one of
\* them has failed.
C11_HalfClosePropagated ==
    [][/\ (c2b = "copy" /\ c2b' = "shutdown")
          => (pending = <<>> /\ eof /\ b2c' = b2c /\ pc' = "relay")
       /\ (b2c = "copy" /\ b2c' = "shutdown")
          => (backendPending = <<>> /\ backendEof /\ c2b' = c2b /\ pc' = "relay")
       /\ ("backend" \in shutWr' /\ "backend" \notin shutWr)
          => (c2b = "shutdown" /\ c2b' = "done" /\ b2c' = b2c /\ pc' = "relay")
       /\ ("client" \in shutWr' /\ "client" \notin shutWr)
          => (b2c = "shutdown" /\ b2c' = "done" /\ c2b' = c2b /\ pc' = "relay")
       /\ (c2b' = "done" => "backend" \in shutWr')
       /\ (b2c' = "done" => "client" \in shutWr')
       /\ (pc = "relay" /\ pc' # "relay")
          => \/ c2b' = "done" /\ b2c' = "done"
             \/ c2b' = "error"
             \/ b2c' = "error"
      ]_vars

\* the client has closed and the backend's write half is shut, while the
\* backend's octets are still being copied to the client
C11_Witness ==
    /\ pc = "relay"
    /\ c2b = "done"
    /\ shutWr = {"backend"}
    /\ b2c = "copy"
    /\ fromBackend > 0

\* C15: short reads accumulate and no incomplete message is acted upon: the
\* greeting parser returns only once the 2 + nmethods octets the greeting
\* declares have been received, the request parser only once the octets of the
\* request it returns have been received, no method selection is written for
\* a greeting that never arrives whole, and no reply for a request that was
\* never parsed.
C15_NoIncompleteMessage ==
    /\ pc = "select" => (Len(stream) >= 2 /\ Received >= GreetingLen)
    /\ ~GreetingWhole => sent = <<>>
    /\ request # NoRequest => reqEnd <= Received
    /\ request = NoRequest => Len(sent) <= 1

\* the octets of the writes made so far, had each been completed
SentHead ==
    (IF Len(sent) >= 1 THEN <<5, sent[1].code>> ELSE <<>>)
    \o (IF Len(sent) >= 2
        THEN <<5, sent[2].code, 0, 1, 0, 0, 0, 0, 0, 0>> ELSE <<>>)
SentWhole == \A i \in 1..Len(sent) : sent[i].complete

\* C18: a session writes to its client at most one 2-octet method selection
\* and then at most one reply; a reply is the 10 octets
\* [5, code, 0, 1, 0,0,0,0, 0,0] with code in {0, 2, 4, 7, 8} and is written
\* only after the selection [5, 0x00] was written and a request was read; the
\* octets the client gets are exactly those, then octets of the backend, and
\* these only after a reply with code 0: after [5, 0xFF] or a reply with a
\* non-zero code nothing more is written.
C18_WriteDiscipline ==
    /\ Len(sent) <= 2
    /\ Len(sent) >= 1 => (sent[1].kind = "selection" /\ sent[1].code \in {0, 255})
    /\ Len(sent) = 2
       => /\ sent[2].kind = "reply"
          /\ sent[2].code \in {0, 2, 4, 7, 8}
          /\ WroteWhole(1, "selection", 0)
          /\ request # NoRequest
    /\ IF SentWhole
       THEN /\ Len(out) = Len(SentHead) + fromBackend
            /\ Take(out, Len(SentHead)) = SentHead
       ELSE /\ Len(out) < Len(SentHead)
            /\ out = Take(SentHead, Len(out))
            /\ ~sent[Len(sent)].complete
    /\ fromBackend > 0 => WroteWhole(2, "reply", 0)

\* a whole refusal follows the whole selection and ends the session
C18_Witness ==
    /\ pc = "done"
    /\ result = "ok"
    /\ out = <<5, 0, 5, 2, 0, 1, 0, 0, 0, 0, 0, 0>>
    /\ SentWhole
    /\ Len(sent) = 2

\* C19: a session dials a backend at most once, and only after the method
\* selection [5, 0x00] was written and a whole request was parsed whose
\* command is CONNECT and whose address is a domain name that passes the
\* hostname policy; a backend connection exists only as the outcome of that
\* dial; and a session that wrote [5, 0xFF], parsed no request, or replied 2,
\* 7 or 8 has dialled nothing and holds no backend connection.
C19_DialOnlyWhenAllowed ==
    /\ Len(dialed) <= 1
    /\ dialed # <<>>
       => /\ WroteWhole(1, "selection", 0)
          /\ request # NoRequest
          /\ request.command = 1
          /\ request.address.kind = "domain"
          /\ ~HasRefusedChar(request.address.value)
    /\ remote # "none" => Len(dialed) = 1
    /\ (\/ Wrote(1, "selection", 255)
        \/ request = NoRequest
        \/ RepliedWith(2)
        \/ RepliedWith(7)
        \/ RepliedWith(8))
       => (dialed = <<>> /\ remote = "none")

\* the one dial has been made and has failed; no reply is written yet
C19_Witness ==
    /\ pc = "connected"
    /\ Len(dialed) = 1
    /\ remote = "failed"
    /\ Len(sent) = 1

-----------------------------------------------------------------------------
(* Properties of the service, checked under ServiceSpec *)

\* C9: with an allow-list configured, an accepted connection gets a session
\* exactly when it is a Unix connection whose peer uid is available and in
\* the list; every other connection is dropped with nothing read from it and
\* nothing written to it.  Without an allow-list every accepted connection
\* gets a session.
C9_AcceptancePolicy ==
    \A c \in 1..Len(conns) :
        LET passes == \/ ~allowed_uids.some
                      \/ /\ conns[c].kind = "unix"
                         /\ conns[c].cred # NoUid
                         /\ conns[c].cred \in allowed_uids.uids IN
        /\ conns[c].state # "dropped" <=> passes
        /\ conns[c].state = "dropped"
           => ~conns[c].io

C9_Witness ==
    /\ allowed_uids = AllowList({1000})
    /\ Len(conns) = 2
    /\ conns[1].kind = "tcp" /\ conns[1].cred = 1000 /\ conns[1].state = "dropped"
    /\ conns[2].kind = "unix" /\ conns[2].cred = 1000 /\ conns[2].io

\* the listeners whose socket file the process has bound at a path
BoundAtPath(i) == ListenerOf(i).kind = "unix" /\ ListenerOf(i).configured

\* C12: when main returns after the token fired, the path of every configured
\* Unix listener has been unlinked; a path is unlinked once, by its own task
\* and after its accept loop has returned; the path of no other listener is
\* unlinked.
C12_SocketPathsUnlinkedOnce ==
    [][\A i \in ListenerIds :
         /\ unlinks'[i] # unlinks[i]
            => /\ BoundAtPath(i)
               /\ loops[i] = "unlinking"
               /\ loops'[i] = "exited"
               /\ unlinks[i] = 0
               /\ unlinks'[i] = 1
         /\ (mainPc' = "exited" /\ BoundAtPath(i))
            => (token' /\ unlinks'[i] = 1)
         /\ (mainPc' = "exited" /\ ~BoundAtPath(i)) => unlinks'[i] = 0
      ]_vars

\* main has returned after an accept error on the TCP listener; the
\* configured Unix listener's path is gone and a session had been served
C12_Witness ==
    /\ mainPc = "exited"
    /\ unlinks = <<1, 0, 0>>
    /\ Len(conns) = 1
    /\ conns[1].state = "finished"

\* C13: main returns only when the tracker is closed and holds no task: every
\* accept loop's task has ended and every session ever spawned has finished,
\* those spawned after the tracker was closed included.  A session ends only
\* by returning: firing the token leaves every session where it is.
C13_TrackerDrained ==
    [][/\ mainPc' = "exited"
          => /\ trackerClosed'
             /\ \A i \in ListenerIds : loops'[i] = "exited"
             /\ \A c \in 1..Len(conns') : conns'[c].state # "session"
       /\ \A c \in 1..Len(conns) :
            /\ conns'[c].listener = conns[c].listener
            /\ conns[c].state # "session" => conns'[c].state = conns[c].state
            /\ conns[c].state = "session"
               => conns'[c].state \in {"session", "finished"}
            /\ (~token /\ token') => conns'[c] = conns[c]
      ]_vars

\* main has returned; a session spawned after the tracker was closed has
\* finished before that
C13_Witness ==
    /\ mainPc = "exited"
    /\ \E c \in 1..Len(conns) :
         /\ conns[c].late
         /\ conns[c].io
         /\ conns[c].state = "finished"

\* the socket file of listener i exists: bound at startup, not yet removed
SocketFileExists(i) == BoundAtPath(i) /\ unlinks[i] = 0

\* C14: the socket file of a configured Unix listener never exists with a
\* group or other permission bit (the low six bits of its mode).
C14_SocketFilePrivate ==
    \A i \in ListenerIds : SocketFileExists(i) => SocketMode(umask) % 64 = 0

\* C16: the token fires only when main's select completes on the interrupt
\* signal or when a listener's accept fails, which ends that listener's loop;
\* an accept loop that ends, whichever listener's it is, fires the token for
\* the whole process; and no step of a session (it starts, does I/O, ends
\* with whatever outcome) or dropped connection fires the token, moves main
\* or ends an accept loop.
C16_TokenFiredBySignalOrAcceptError ==
    [][/\ (~token /\ token')
          => \/ mainPc = "serving" /\ mainPc' = "waiting"
             \/ \E i \in ListenerIds :
                  loops[i] = "accepting" /\ loops'[i] # "accepting"
       /\ \A i \in ListenerIds :
            (loops[i] = "accepting" /\ loops'[i] # "accepting") => token'
       /\ (token => token')
       /\ conns' # conns
          => (token' = token /\ mainPc' = mainPc /\ loops' = loops
              /\ trackerClosed' = trackerClosed)
      ]_vars

\* the TCP listener's accept has failed while main was still serving: the
\* token is fired, the Unix listeners have not looked yet, a session runs
C16_Witness ==
    /\ token
    /\ mainPc = "serving"
    /\ loops = <<"accepting", "exited", "accepting">>
    /\ \E c \in 1..Len(conns) : conns[c].state = "session" /\ ~conns[c].late

\* the sessions in flight go on and end
SessionsProceed == \E c \in 1..Len(conns) : SessionIo(c) \/ SessionEnd(c)

\* C17: once the token has fired, the task of every accept loop, whatever its
\* listener, eventually ends; and if the sessions in flight keep going until
\* they end, main's tracker.wait() eventually returns and main exits.
C17_ShutdownCompletes ==
    /\ token ~> (\A i \in ListenerIds : loops[i] = "exited")
    /\ WF_vars(SessionsProceed) => (token ~> mainPc = "exited")

\* main has exited after serving one connection and dropping another
C17_Witness ==
    /\ mainPc = "exited"
    /\ token
    /\ trackerClosed
    /\ Len(conns) = 2
    /\ conns[1].state = "dropped"
    /\ conns[2].state = "finished"

\* C20: once the token has fired, no accept loop accepts a further connection
\* or spawns a further session, a connection already pending on its listener
\* included.
C20_NoAcceptAfterShutdown ==
    [][token => Len(conns') = Len(conns)]_vars

\* C21: whatever method count the greeting declares and however its octets
\* are delivered, the range [2, 2 + nmethods) the greeting parser extracts lies
\* inside its 256-octet buffer and inside the octets read from the client:
\* parsing never ends with an out-of-bounds access, and a method list it
\* returns holds only octets the client sent.
C21_GreetingSliceInBounds ==
    /\ result # "panic"
    /\ pc = "select"
       => /\ Len(methods) + 2 <= HelloBufferLen
          /\ Len(methods) + 2 <= reqStart
          /\ methods = SubSeq(stream, 3, Len(methods) + 2)

=============================================================================
